---- MODULE Spec2Model ----
(***************************************************************************)
(* Model of prover/examples/zkmips.rs: the recursive segment-proof         *)
(* aggregation pipeline (aggregate_proof, aggregate_proof_all) and the      *)
(* single-segment path (prove_single_seg).  Each external prover, verifier  *)
(* or file call is one step; its outcome (Ok / Err) is chosen               *)
(* nondeterministically and is propagated the way the source propagates it  *)
(* (`?`, `.unwrap()`, or a stored Result).                                  *)
(***************************************************************************)
EXTENDS Integers, Sequences, FiniteSets, TLC

\* ---------------------------------------------------------------- bounds
MaxSeg == 5

\* ------------------------------------------------------ program constants
MinSegFileNumber == 2
DefaultSegFileNumber == 2

\* Encodings of the SEG_FILE_NUM environment variable: a decimal usize, a
\* string that does not parse as usize, or the variable being unset.
Unparsable == -1
Unset == -2

\* ----------------------------------------------------------------- proofs
\* A proof is the bracketed term of its derivation: Root(s) is <<s>>,
\* an aggregate is <<AggOpen>> \o left \o right \o <<AggClose>>.
AggOpen == -1
AggClose == -2
BlockTag == -3
StarkTag == -4
WrapTag == -5
NoProof == <<>>

Root(s) == <<s>>
Agg(l, r) == <<AggOpen>> \o l \o r \o <<AggClose>>
Block(p) == <<BlockTag>> \o p
Stark(s) == <<StarkTag, s>>
Wrapped(p) == <<WrapTag>> \o p

IsRoot(p) == Len(p) = 1 /\ p[1] >= 0
IsAggregate(p) == Len(p) > 1 /\ p[1] = AggOpen

\* ---------------------------------------------------------- public values
NoValue == -9
NoPV == [roots_before |-> NoValue, roots_after |-> NoValue, userdata |-> NoValue]

VARIABLES mode, pc, env, breaks, missing, seg_file, seg_file2, st, log

vars == <<mode, pc, env, breaks, missing, seg_file, seg_file2, st, log>>

\* The trace handed over by the Segment Source: the state commitment before
\* segment s, the one after it, and the output digest after it.  Segment s
\* hands its post-state to segment s+1 unless s is in `breaks'.
Pre(s) == s
Post(s) == IF s \in breaks THEN 50 + s + 1 ELSE s + 1
Userdata(s) == 100 + s

\* prove_root(segment) -> (RootProof, PublicValues)
RootPV(s) == [roots_before |-> Pre(s), roots_after |-> Post(s), userdata |-> Userdata(s)]

\* PublicValues { roots_before: left.., roots_after: right.., userdata: right.. }
MergedFromRight(l, r) ==
    [roots_before |-> r.roots_before, roots_after |-> r.roots_after, userdata |-> r.userdata]
MergedUserdataLeft(l, r) ==
    [roots_before |-> l.roots_before, roots_after |-> r.roots_after, userdata |-> l.userdata]

MergedPublicValues(l, r) ==
    [roots_before |-> l.roots_before, roots_after |-> r.roots_after, userdata |-> r.userdata]

\* prove_aggregation(..., public_values) -> (AggregateProof, PublicValues):
\* the aggregator hands back the public values it was given.
AggregationPV(merged) == merged

\* seg_file_number.parse::<_>().unwrap_or(2usize)
ParseSegFileNumber(e) == IF e >= 0 THEN e ELSE DefaultSegFileNumber

\* if seg_file_number < 2 { panic!(..) }
BelowMinimumLax(n) == n < 1
BelowMinimum(n) == n < MinSegFileNumber

\* The `?` operator: continue on Ok, return the Err to the caller otherwise.
PropagateIgnored(ok, next) == next
Propagate(ok, next) == IF ok THEN next ELSE "err"

\* .unwrap(): continue on Ok, panic otherwise.
Unwrap(ok, next) == IF ok THEN next ELSE "panic"

IsEvenFlipped(n) == n % 2 = 1

\* seg_file_number % 2 == 0
IsEven(n) == n % 2 = 0

LoopCountShort(n, base) == (n - base - 1) \div 2

\* 0..(seg_file_number - base_seg) / 2
LoopCount(n, base) == (n - base) \div 2

\* base_seg + (i << 1)
PairFirstStride1(base, i) == base + i
PairFirst(base, i) == base + (i * 2)

\* File::open(seg_file): fails when the file is missing or unreadable.
CanOpen(s) == s \notin missing

\* One entry of the call history: the call, the segment index it is about,
\* the is_agg flags and proofs passed, the public values passed (for
\* prove_root and prove: the public values returned) and the outcome.
Ev(op, seg, lflag, rflag, lhs, rhs, pv, ok) ==
    [op |-> op, seg |-> seg, left_is_agg |-> lflag, right_is_agg |-> rflag,
     lhs |-> lhs, rhs |-> rhs, pv |-> pv, ok |-> ok]

Logged(e) == log' = Append(log, e)

InitLocals ==
    [seg_file_number |-> 0, base_seg |-> 0, is_agg |-> FALSE, i |-> 0,
     all_circuits |-> "unbuilt",
     agg_proof |-> NoProof, updated_agg_public_values |-> NoPV,
     root_proof_first |-> NoProof, first_public_values |-> NoPV,
     root_proof |-> NoProof, public_values |-> NoPV,
     new_agg_proof |-> NoProof, new_updated_agg_public_values |-> NoPV,
     block_proof |-> NoProof, allproof |-> NoProof, result |-> FALSE, wrapped_proof |-> NoProof,
     saved |-> FALSE]

World == <<mode, env, breaks, missing, seg_file, seg_file2>>

InitAll ==
    /\ mode = "aggregate_proof_all"
    /\ env \in (Unset .. MaxSeg)
    /\ breaks \in SUBSET (0 .. (ParseSegFileNumber(env) - 2))
    /\ missing \in SUBSET (0 .. (ParseSegFileNumber(env) - 1))
    /\ seg_file = 0 /\ seg_file2 = 0

InitTwo ==
    /\ mode = "aggregate_proof"
    /\ env = Unset
    /\ seg_file \in 0 .. (MaxSeg - 1)
    /\ seg_file2 \in 0 .. (MaxSeg - 1)
    /\ breaks \in SUBSET {seg_file}
    /\ missing \in SUBSET {seg_file, seg_file2}

InitSingle ==
    /\ mode = "prove"
    /\ env = Unset
    /\ seg_file \in 0 .. (MaxSeg - 1)
    /\ seg_file2 = 0
    /\ breaks = {}
    /\ missing \in SUBSET {seg_file}

Init ==
    /\ (InitAll \/ InitTwo \/ InitSingle)
    /\ pc = "start"
    /\ st = InitLocals
    /\ log = <<>>

\* ------------------------------------------------ aggregate_proof_all()
Here(m, at) == mode = m /\ pc = at

AllStartUnchecked ==
    /\ Here("aggregate_proof_all", "start")
    /\ IF env = Unset
         THEN pc' = "panic" /\ st' = st
         ELSE /\ st' = [st EXCEPT !.seg_file_number = ParseSegFileNumber(env)]
              /\ pc' = "new_circuits"
    /\ UNCHANGED <<World, log>>

\* lines 273-284: read the environment, parse SEG_FILE_NUM, reject N < 2.
AllStart ==
    /\ Here("aggregate_proof_all", "start")
    /\ IF env = Unset
         THEN pc' = "panic" /\ st' = st
         ELSE /\ st' = [st EXCEPT !.seg_file_number = ParseSegFileNumber(env)]
              /\ pc' = IF BelowMinimum(ParseSegFileNumber(env))
                         THEN "panic" ELSE "new_circuits"
    /\ UNCHANGED <<World, log>>

\* lines 286-291: AllRecursiveCircuits::new
AllNewCircuits ==
    /\ Here("aggregate_proof_all", "new_circuits")
    /\ st' = [st EXCEPT !.all_circuits = "built"]
    /\ Logged(Ev("new_circuits", -1, FALSE, FALSE, NoProof, NoProof, NoPV, TRUE))
    /\ pc' = "open_first"
    /\ UNCHANGED World

\* lines 293-296: open segment 0
AllOpenFirst ==
    /\ Here("aggregate_proof_all", "open_first")
    /\ Logged(Ev("open", 0, FALSE, FALSE, NoProof, NoProof, NoPV, CanOpen(0)))
    /\ pc' = Propagate(CanOpen(0), "prove_first")
    /\ UNCHANGED <<World, st>>

\* lines 297-299: (agg_proof, updated_agg_public_values) = prove_root(seg 0)?
AllProveFirst ==
    /\ Here("aggregate_proof_all", "prove_first")
    /\ \E ok \in BOOLEAN :
         /\ Logged(Ev("prove_root", 0, FALSE, FALSE, NoProof, NoProof, RootPV(0), ok))
         /\ st' = IF ok THEN [st EXCEPT !.agg_proof = Root(0),
                                        !.updated_agg_public_values = RootPV(0)]
                        ELSE st
         /\ pc' = Propagate(ok, "verify_first")
    /\ UNCHANGED World

\* line 302: verify_root(agg_proof.clone())?
AllVerifyFirst ==
    /\ Here("aggregate_proof_all", "verify_first")
    /\ \E ok \in BOOLEAN :
         /\ Logged(Ev("verify_root", -1, FALSE, FALSE, st.agg_proof, NoProof, NoPV, ok))
         /\ pc' = Propagate(ok, "parity")
    /\ UNCHANGED <<World, st>>

\* lines 304-307: base_seg = 1; is_agg = false; if seg_file_number % 2 == 0
AllParity ==
    /\ Here("aggregate_proof_all", "parity")
    /\ st' = [st EXCEPT !.base_seg = 1, !.is_agg = FALSE]
    /\ pc' = IF IsEven(st.seg_file_number) THEN "open_second" ELSE "loop"
    /\ UNCHANGED <<World, log>>

\* lines 308-311: open segment 1
AllOpenSecond ==
    /\ Here("aggregate_proof_all", "open_second")
    /\ Logged(Ev("open", 1, FALSE, FALSE, NoProof, NoProof, NoPV, CanOpen(1)))
    /\ pc' = Propagate(CanOpen(1), "prove_second")
    /\ UNCHANGED <<World, st>>

\* lines 312-314: (root_proof, public_values) = prove_root(seg 1)?
AllProveSecond ==
    /\ Here("aggregate_proof_all", "prove_second")
    /\ \E ok \in BOOLEAN :
         /\ Logged(Ev("prove_root", 1, FALSE, FALSE, NoProof, NoProof, RootPV(1), ok))
         /\ st' = IF ok THEN [st EXCEPT !.root_proof = Root(1),
                                        !.public_values = RootPV(1)]
                        ELSE st
         /\ pc' = Propagate(ok, "verify_second")
    /\ UNCHANGED World

\* line 317: verify_root(root_proof.clone())?
AllVerifySecond ==
    /\ Here("aggregate_proof_all", "verify_second")
    /\ \E ok \in BOOLEAN :
         /\ Logged(Ev("verify_root", -1, FALSE, FALSE, st.root_proof, NoProof, NoPV, ok))
         /\ pc' = Propagate(ok, "aggregate_first")
    /\ UNCHANGED <<World, st>>

AllAggregateFirstSwapped ==
    /\ Here("aggregate_proof_all", "aggregate_first")
    /\ LET merged == MergedPublicValues(st.updated_agg_public_values, st.public_values)
       IN \E ok \in BOOLEAN :
            /\ Logged(Ev("prove_aggregation", -1, FALSE, FALSE,
                         st.root_proof, st.agg_proof, merged, ok))
            /\ st' = IF ok THEN [st EXCEPT !.agg_proof = Agg(st.root_proof, st.agg_proof),
                                           !.updated_agg_public_values = AggregationPV(merged)]
                           ELSE st
            /\ pc' = Propagate(ok, "verify_aggregate_first")
    /\ UNCHANGED World

\* lines 319-333: prove_aggregation(false, &agg_proof, false, &root_proof, ..)?
AllAggregateFirst ==
    /\ Here("aggregate_proof_all", "aggregate_first")
    /\ LET merged == MergedPublicValues(st.updated_agg_public_values, st.public_values)
       IN \E ok \in BOOLEAN :
            /\ Logged(Ev("prove_aggregation", -1, FALSE, FALSE,
                         st.agg_proof, st.root_proof, merged, ok))
            /\ st' = IF ok THEN [st EXCEPT !.agg_proof = Agg(st.agg_proof, st.root_proof),
                                           !.updated_agg_public_values = AggregationPV(merged)]
                           ELSE st
            /\ pc' = Propagate(ok, "verify_aggregate_first")
    /\ UNCHANGED World

AllVerifyAggregateFirstStaleBase ==
    /\ Here("aggregate_proof_all", "verify_aggregate_first")
    /\ \E ok \in BOOLEAN :
         /\ Logged(Ev("verify_aggregation", -1, FALSE, FALSE, st.agg_proof, NoProof, NoPV, ok))
         /\ st' = IF ok THEN [st EXCEPT !.is_agg = TRUE] ELSE st
         /\ pc' = Propagate(ok, "loop")
    /\ UNCHANGED World

\* lines 335-338: verify_aggregation(&agg_proof)?; is_agg = true; base_seg = 2
AllVerifyAggregateFirst ==
    /\ Here("aggregate_proof_all", "verify_aggregate_first")
    /\ \E ok \in BOOLEAN :
         /\ Logged(Ev("verify_aggregation", -1, FALSE, FALSE, st.agg_proof, NoProof, NoPV, ok))
         /\ st' = IF ok THEN [st EXCEPT !.is_agg = TRUE, !.base_seg = 2] ELSE st
         /\ pc' = Propagate(ok, "loop")
    /\ UNCHANGED World

AllLoopOffByOne ==
    /\ Here("aggregate_proof_all", "loop")
    /\ pc' = IF st.i <= LoopCount(st.seg_file_number, st.base_seg)
               THEN "loop_open_first" ELSE "prove_block"
    /\ UNCHANGED <<World, st, log>>

\* line 341: for i in 0..(seg_file_number - base_seg) / 2
AllLoop ==
    /\ Here("aggregate_proof_all", "loop")
    /\ pc' = IF st.i < LoopCount(st.seg_file_number, st.base_seg)
               THEN "loop_open_first" ELSE "prove_block"
    /\ UNCHANGED <<World, st, log>>

\* lines 342-345: open segment base_seg + (i << 1)
AllLoopOpenFirst ==
    /\ Here("aggregate_proof_all", "loop_open_first")
    /\ LET s == PairFirst(st.base_seg, st.i)
       IN /\ Logged(Ev("open", s, FALSE, FALSE, NoProof, NoProof, NoPV, CanOpen(s)))
          /\ pc' = Propagate(CanOpen(s), "loop_prove_first")
    /\ UNCHANGED <<World, st>>

\* lines 346-348: (root_proof_first, first_public_values) = prove_root(..)?
AllLoopProveFirst ==
    /\ Here("aggregate_proof_all", "loop_prove_first")
    /\ LET s == PairFirst(st.base_seg, st.i)
       IN \E ok \in BOOLEAN :
            /\ Logged(Ev("prove_root", s, FALSE, FALSE, NoProof, NoProof, RootPV(s), ok))
            /\ st' = IF ok THEN [st EXCEPT !.root_proof_first = Root(s),
                                           !.first_public_values = RootPV(s)]
                           ELSE st
            /\ pc' = Propagate(ok, "loop_verify_first")
    /\ UNCHANGED World

\* line 351: verify_root(root_proof_first.clone())?
AllLoopVerifyFirst ==
    /\ Here("aggregate_proof_all", "loop_verify_first")
    /\ \E ok \in BOOLEAN :
         /\ Logged(Ev("verify_root", -1, FALSE, FALSE, st.root_proof_first, NoProof, NoPV, ok))
         /\ pc' = Propagate(ok, "loop_open_second")
    /\ UNCHANGED <<World, st>>

\* lines 353-356: open segment base_seg + (i << 1) + 1
AllLoopOpenSecond ==
    /\ Here("aggregate_proof_all", "loop_open_second")
    /\ LET s == PairFirst(st.base_seg, st.i) + 1
       IN /\ Logged(Ev("open", s, FALSE, FALSE, NoProof, NoProof, NoPV, CanOpen(s)))
          /\ pc' = Propagate(CanOpen(s), "loop_prove_second")
    /\ UNCHANGED <<World, st>>

\* lines 357-359: (root_proof, public_values) = prove_root(..)?
AllLoopProveSecond ==
    /\ Here("aggregate_proof_all", "loop_prove_second")
    /\ LET s == PairFirst(st.base_seg, st.i) + 1
       IN \E ok \in BOOLEAN :
            /\ Logged(Ev("prove_root", s, FALSE, FALSE, NoProof, NoProof, RootPV(s), ok))
            /\ st' = IF ok THEN [st EXCEPT !.root_proof = Root(s),
                                           !.public_values = RootPV(s)]
                           ELSE st
            /\ pc' = Propagate(ok, "loop_verify_second")
    /\ UNCHANGED World

\* line 362: verify_root(root_proof.clone())?
AllLoopVerifySecond ==
    /\ Here("aggregate_proof_all", "loop_verify_second")
    /\ \E ok \in BOOLEAN :
         /\ Logged(Ev("verify_root", -1, FALSE, FALSE, st.root_proof, NoProof, NoPV, ok))
         /\ pc' = Propagate(ok, "loop_aggregate_side")
    /\ UNCHANGED <<World, st>>

\* lines 364-378: prove_aggregation(false, &root_proof_first, false, &root_proof, ..)?
AllLoopAggregateSide ==
    /\ Here("aggregate_proof_all", "loop_aggregate_side")
    /\ LET merged == MergedPublicValues(st.first_public_values, st.public_values)
       IN \E ok \in BOOLEAN :
            /\ Logged(Ev("prove_aggregation", -1, FALSE, FALSE,
                         st.root_proof_first, st.root_proof, merged, ok))
            /\ st' = IF ok THEN [st EXCEPT !.new_agg_proof = Agg(st.root_proof_first, st.root_proof),
                                           !.new_updated_agg_public_values = AggregationPV(merged)]
                           ELSE st
            /\ pc' = Propagate(ok, "loop_verify_side")
    /\ UNCHANGED World

AllLoopVerifySideUnchecked ==
    /\ Here("aggregate_proof_all", "loop_verify_side")
    /\ \E ok \in BOOLEAN :
         /\ Logged(Ev("verify_aggregation", -1, FALSE, FALSE, st.new_agg_proof, NoProof, NoPV, ok))
         /\ pc' = "loop_aggregate_nested"
    /\ UNCHANGED <<World, st>>

\* line 380: verify_aggregation(&new_agg_proof)?
AllLoopVerifySide ==
    /\ Here("aggregate_proof_all", "loop_verify_side")
    /\ \E ok \in BOOLEAN :
         /\ Logged(Ev("verify_aggregation", -1, FALSE, FALSE, st.new_agg_proof, NoProof, NoPV, ok))
         /\ pc' = Propagate(ok, "loop_aggregate_nested")
    /\ UNCHANGED <<World, st>>

AllLoopAggregateNestedStaleFlag ==
    /\ Here("aggregate_proof_all", "loop_aggregate_nested")
    /\ LET merged == MergedPublicValues(st.updated_agg_public_values,
                                        st.new_updated_agg_public_values)
       IN \E ok \in BOOLEAN :
            /\ Logged(Ev("prove_aggregation", -1, st.is_agg, TRUE,
                         st.agg_proof, st.new_agg_proof, merged, ok))
            /\ st' = IF ok THEN [st EXCEPT !.agg_proof = Agg(st.agg_proof, st.new_agg_proof),
                                           !.updated_agg_public_values = AggregationPV(merged)]
                           ELSE st
            /\ pc' = Propagate(ok, "loop_verify_nested")
    /\ UNCHANGED World

\* lines 382-398: prove_aggregation(is_agg, &agg_proof, true, &new_agg_proof, ..)?;
\* is_agg = true
AllLoopAggregateNested ==
    /\ Here("aggregate_proof_all", "loop_aggregate_nested")
    /\ LET merged == MergedPublicValues(st.updated_agg_public_values,
                                        st.new_updated_agg_public_values)
       IN \E ok \in BOOLEAN :
            /\ Logged(Ev("prove_aggregation", -1, st.is_agg, TRUE,
                         st.agg_proof, st.new_agg_proof, merged, ok))
            /\ st' = IF ok THEN [st EXCEPT !.agg_proof = Agg(st.agg_proof, st.new_agg_proof),
                                           !.updated_agg_public_values = AggregationPV(merged),
                                           !.is_agg = TRUE]
                           ELSE st
            /\ pc' = Propagate(ok, "loop_verify_nested")
    /\ UNCHANGED World

\* lines 401-402: verify_aggregation(&agg_proof)?; next iteration
AllLoopVerifyNested ==
    /\ Here("aggregate_proof_all", "loop_verify_nested")
    /\ \E ok \in BOOLEAN :
         /\ Logged(Ev("verify_aggregation", -1, FALSE, FALSE, st.agg_proof, NoProof, NoPV, ok))
         /\ st' = IF ok THEN [st EXCEPT !.i = st.i + 1] ELSE st
         /\ pc' = Propagate(ok, "loop")
    /\ UNCHANGED World

AllProveBlockSideValues ==
    /\ Here("aggregate_proof_all", "prove_block")
    /\ \E ok \in BOOLEAN :
         /\ Logged(Ev("prove_block", -1, FALSE, FALSE, st.agg_proof, NoProof,
                      st.new_updated_agg_public_values, ok))
         /\ st' = IF ok THEN [st EXCEPT !.block_proof = Block(st.agg_proof)] ELSE st
         /\ pc' = Propagate(ok, "verify_block")
    /\ UNCHANGED World

\* lines 404-405: prove_block(None, &agg_proof, updated_agg_public_values)?
AllProveBlock ==
    /\ Here("aggregate_proof_all", "prove_block")
    /\ \E ok \in BOOLEAN :
         /\ Logged(Ev("prove_block", -1, FALSE, FALSE, st.agg_proof, NoProof,
                      st.updated_agg_public_values, ok))
         /\ st' = IF ok THEN [st EXCEPT !.block_proof = Block(st.agg_proof)] ELSE st
         /\ pc' = Propagate(ok, "verify_block")
    /\ UNCHANGED World

\* line 411: let result = verify_block(&block_proof);  (kept, not propagated)
AllVerifyBlock ==
    /\ Here("aggregate_proof_all", "verify_block")
    /\ \E ok \in BOOLEAN :
         /\ Logged(Ev("verify_block", -1, FALSE, FALSE, st.block_proof, NoProof, NoPV, ok))
         /\ st' = [st EXCEPT !.result = ok]
         /\ pc' = "wrap_build"
    /\ UNCHANGED World

\* lines 413-419: circuit.set_data(all_circuits.block.circuit); WrappedCircuit::build
AllWrapBuild ==
    /\ Here("aggregate_proof_all", "wrap_build")
    /\ st' = [st EXCEPT !.all_circuits = "block_moved"]
    /\ Logged(Ev("wrap_build", -1, FALSE, FALSE, NoProof, NoProof, NoPV, TRUE))
    /\ pc' = "wrap_prove"
    /\ UNCHANGED World

\* line 421: wrapped_circuit.prove(&block_proof).unwrap()
AllWrapProve ==
    /\ Here("aggregate_proof_all", "wrap_prove")
    /\ \E ok \in BOOLEAN :
         /\ Logged(Ev("wrap_prove", -1, FALSE, FALSE, st.block_proof, NoProof, NoPV, ok))
         /\ st' = IF ok THEN [st EXCEPT !.wrapped_proof = Wrapped(st.block_proof)] ELSE st
         /\ pc' = Unwrap(ok, "wrap_save")
    /\ UNCHANGED World

\* line 422: wrapped_proof.save(path).unwrap()
AllWrapSave ==
    /\ Here("aggregate_proof_all", "wrap_save")
    /\ \E ok \in BOOLEAN :
         /\ Logged(Ev("wrap_save", -1, FALSE, FALSE, st.wrapped_proof, NoProof, NoPV, ok))
         /\ st' = IF ok THEN [st EXCEPT !.saved = TRUE] ELSE st
         /\ pc' = Unwrap(ok, "return")
    /\ UNCHANGED World

AllReturnOk ==
    /\ Here("aggregate_proof_all", "return")
    /\ pc' = "ok"
    /\ UNCHANGED <<World, st, log>>

\* lines 424-425: result
AllReturn ==
    /\ Here("aggregate_proof_all", "return")
    /\ pc' = IF st.result THEN "ok" ELSE "err"
    /\ UNCHANGED <<World, st, log>>

TwoStartNoCircuits ==
    /\ Here("aggregate_proof", "start")
    /\ pc' = "open_first"
    /\ UNCHANGED <<World, st, log>>

\* ---------------------------------------------------- aggregate_proof()
\* lines 203-209: read the environment (SEG_FILE, SEG_FILE2)
TwoStart ==
    /\ Here("aggregate_proof", "start")
    /\ pc' = "new_circuits"
    /\ UNCHANGED <<World, st, log>>

\* lines 210-214: AllRecursiveCircuits::new
TwoNewCircuits ==
    /\ Here("aggregate_proof", "new_circuits")
    /\ st' = [st EXCEPT !.all_circuits = "built"]
    /\ Logged(Ev("new_circuits", -1, FALSE, FALSE, NoProof, NoProof, NoPV, TRUE))
    /\ pc' = "open_first"
    /\ UNCHANGED World

\* lines 216-217: File::open(seg_file)?
TwoOpenFirst ==
    /\ Here("aggregate_proof", "open_first")
    /\ Logged(Ev("open", seg_file, FALSE, FALSE, NoProof, NoProof, NoPV, CanOpen(seg_file)))
    /\ pc' = Propagate(CanOpen(seg_file), "prove_first")
    /\ UNCHANGED <<World, st>>

\* lines 218-220: (root_proof_first, first_public_values) = prove_root(..)?
TwoProveFirst ==
    /\ Here("aggregate_proof", "prove_first")
    /\ \E ok \in BOOLEAN :
         /\ Logged(Ev("prove_root", seg_file, FALSE, FALSE, NoProof, NoProof,
                      RootPV(seg_file), ok))
         /\ st' = IF ok THEN [st EXCEPT !.root_proof_first = Root(seg_file),
                                        !.first_public_values = RootPV(seg_file)]
                        ELSE st
         /\ pc' = Propagate(ok, "verify_first")
    /\ UNCHANGED World

\* line 223: verify_root(root_proof_first.clone())?
TwoVerifyFirst ==
    /\ Here("aggregate_proof", "verify_first")
    /\ \E ok \in BOOLEAN :
         /\ Logged(Ev("verify_root", -1, FALSE, FALSE, st.root_proof_first, NoProof, NoPV, ok))
         /\ pc' = Propagate(ok, "open_second")
    /\ UNCHANGED <<World, st>>

\* lines 225-226: File::open(seg_file2)?
TwoOpenSecond ==
    /\ Here("aggregate_proof", "open_second")
    /\ Logged(Ev("open", seg_file2, FALSE, FALSE, NoProof, NoProof, NoPV, CanOpen(seg_file2)))
    /\ pc' = Propagate(CanOpen(seg_file2), "prove_second")
    /\ UNCHANGED <<World, st>>

\* lines 227-229: (root_proof, public_values) = prove_root(..)?
TwoProveSecond ==
    /\ Here("aggregate_proof", "prove_second")
    /\ \E ok \in BOOLEAN :
         /\ Logged(Ev("prove_root", seg_file2, FALSE, FALSE, NoProof, NoProof,
                      RootPV(seg_file2), ok))
         /\ st' = IF ok THEN [st EXCEPT !.root_proof = Root(seg_file2),
                                        !.public_values = RootPV(seg_file2)]
                        ELSE st
         /\ pc' = Propagate(ok, "verify_second")
    /\ UNCHANGED World

\* line 232: verify_root(root_proof.clone())?
TwoVerifySecond ==
    /\ Here("aggregate_proof", "verify_second")
    /\ \E ok \in BOOLEAN :
         /\ Logged(Ev("verify_root", -1, FALSE, FALSE, st.root_proof, NoProof, NoPV, ok))
         /\ pc' = Propagate(ok, "aggregate_first")
    /\ UNCHANGED <<World, st>>

\* lines 234-249: prove_aggregation(false, &root_proof_first, false, &root_proof, ..)?
TwoAggregate ==
    /\ Here("aggregate_proof", "aggregate_first")
    /\ LET merged == MergedPublicValues(st.first_public_values, st.public_values)
       IN \E ok \in BOOLEAN :
            /\ Logged(Ev("prove_aggregation", -1, FALSE, FALSE,
                         st.root_proof_first, st.root_proof, merged, ok))
            /\ st' = IF ok THEN [st EXCEPT !.agg_proof = Agg(st.root_proof_first, st.root_proof),
                                           !.updated_agg_public_values = AggregationPV(merged)]
                           ELSE st
            /\ pc' = Propagate(ok, "verify_aggregate_first")
    /\ UNCHANGED World

\* line 251: verify_aggregation(&agg_proof)?
TwoVerifyAggregate ==
    /\ Here("aggregate_proof", "verify_aggregate_first")
    /\ \E ok \in BOOLEAN :
         /\ Logged(Ev("verify_aggregation", -1, FALSE, FALSE, st.agg_proof, NoProof, NoPV, ok))
         /\ pc' = Propagate(ok, "prove_block")
    /\ UNCHANGED <<World, st>>

\* lines 253-255: prove_block(None, &agg_proof, updated_agg_public_values)?
TwoProveBlock ==
    /\ Here("aggregate_proof", "prove_block")
    /\ \E ok \in BOOLEAN :
         /\ Logged(Ev("prove_block", -1, FALSE, FALSE, st.agg_proof, NoProof,
                      st.updated_agg_public_values, ok))
         /\ st' = IF ok THEN [st EXCEPT !.block_proof = Block(st.agg_proof)] ELSE st
         /\ pc' = Propagate(ok, "verify_block")
    /\ UNCHANGED World

\* line 262: all_circuits.verify_block(&block_proof)   (the return value)
TwoVerifyBlock ==
    /\ Here("aggregate_proof", "verify_block")
    /\ \E ok \in BOOLEAN :
         /\ Logged(Ev("verify_block", -1, FALSE, FALSE, st.block_proof, NoProof, NoPV, ok))
         /\ st' = [st EXCEPT !.result = ok]
         /\ pc' = IF ok THEN "ok" ELSE "err"
    /\ UNCHANGED World

\* --------------------------------------------------- prove_single_seg()
\* lines 140-147: File::open(seg_file).unwrap()
SingleOpen ==
    /\ Here("prove", "start")
    /\ Logged(Ev("open", seg_file, FALSE, FALSE, NoProof, NoProof, NoPV, CanOpen(seg_file)))
    /\ pc' = Unwrap(CanOpen(seg_file), "prove")
    /\ UNCHANGED <<World, st>>

\* lines 153-157: allproof = prove(&allstark, &kernel, ..).unwrap()
SingleProve ==
    /\ Here("prove", "prove")
    /\ \E ok \in BOOLEAN :
         /\ Logged(Ev("prove", seg_file, FALSE, FALSE, NoProof, NoProof, RootPV(seg_file), ok))
         /\ st' = IF ok THEN [st EXCEPT !.allproof = Stark(seg_file),
                                        !.public_values = RootPV(seg_file)]
                        ELSE st
         /\ pc' = Unwrap(ok, "verify")
    /\ UNCHANGED World

\* lines 166-168: verify_proof(&allstark, allproof, &config).unwrap()
SingleVerify ==
    /\ Here("prove", "verify")
    /\ \E ok \in BOOLEAN :
         /\ Logged(Ev("verify_proof", -1, FALSE, FALSE, st.allproof, NoProof, NoPV, ok))
         /\ st' = [st EXCEPT !.result = ok]
         /\ pc' = Unwrap(ok, "ok")
    /\ UNCHANGED World

Next ==
    \/ AllStart \/ AllNewCircuits \/ AllOpenFirst \/ AllProveFirst \/ AllVerifyFirst
    \/ AllParity \/ AllOpenSecond \/ AllProveSecond \/ AllVerifySecond
    \/ AllAggregateFirst \/ AllVerifyAggregateFirst \/ AllLoop
    \/ AllLoopOpenFirst \/ AllLoopProveFirst \/ AllLoopVerifyFirst
    \/ AllLoopOpenSecond \/ AllLoopProveSecond \/ AllLoopVerifySecond
    \/ AllLoopAggregateSide \/ AllLoopVerifySide
    \/ AllLoopAggregateNested \/ AllLoopVerifyNested
    \/ AllProveBlock \/ AllVerifyBlock \/ AllWrapBuild \/ AllWrapProve \/ AllWrapSave
    \/ AllReturn
    \/ TwoStart \/ TwoNewCircuits \/ TwoOpenFirst \/ TwoProveFirst \/ TwoVerifyFirst
    \/ TwoOpenSecond \/ TwoProveSecond \/ TwoVerifySecond \/ TwoAggregate
    \/ TwoVerifyAggregate \/ TwoProveBlock \/ TwoVerifyBlock
    \/ SingleOpen \/ SingleProve \/ SingleVerify

Spec == Init /\ [][Next]_vars

\* The run is sequential and every call returns: a step that can be taken is
\* eventually taken.
FairSpec == Init /\ [][Next]_vars /\ WF_vars(Next)

\* ------------------------------------------------------ history queries
Ended == pc \in {"ok", "err", "panic"}
Idx == 1 .. Len(log)
Calls(op) == {k \in Idx : log[k].op = op}
OkCalls(op) == {k \in Idx : log[k].op = op /\ log[k].ok}
N == st.seg_file_number

Failed(k) == ~log[k].ok
AggCalls == SelectSeq(log, LAMBDA e : e.op = "prove_aggregation")
AllMode == mode = "aggregate_proof_all"
TwoMode == mode = "aggregate_proof"

\* The trace is continuous: each segment starts where the previous one ended.
Continuous == \A s \in 0 .. (N - 2) : Post(s) = Pre(s + 1)

\* The public values that came back when proof p was produced in this run.
ProducedPV(p) ==
    IF IsRoot(p)
      THEN log[CHOOSE k \in OkCalls("prove_root") : Root(log[k].seg) = p].pv
      ELSE AggregationPV(log[CHOOSE k \in OkCalls("prove_aggregation") :
                                   Agg(log[k].lhs, log[k].rhs) = p].pv)

\* Proof p passed a verification of its kind before call k.
VerifiedBefore(k, p) ==
    \E j \in 1 .. (k - 1) :
        /\ log[j].ok
        /\ log[j].lhs = p
        /\ log[j].op = IF IsRoot(p) THEN "verify_root" ELSE "verify_aggregation"

\* ------------------------------------------------------------------ C1
\* C1: on a continuous trace, the public values aggregate_proof_all passes to
\* prove_block have roots_before of segment 0's root proof and roots_after
\* and userdata of segment N-1's root proof, for odd and even N >= 2.
C1_EndToEndPublicValues ==
    (AllMode /\ N >= 2 /\ Continuous) =>
        \A k \in Calls("prove_block") :
            /\ log[k].pv.roots_before = RootPV(0).roots_before
            /\ log[k].pv.roots_after = RootPV(N - 1).roots_after
            /\ log[k].pv.userdata = RootPV(N - 1).userdata

C1_Witness ==
    /\ AllMode /\ N = 5 /\ Continuous
    /\ Calls("prove_block") # {}
    /\ st.updated_agg_public_values = [roots_before |-> 0, roots_after |-> 5, userdata |-> 104]

\* ------------------------------------------------------------------ C2
\* C2: prove_aggregation is never called with operands whose public values
\* break continuity (left.roots_after # right.roots_before); such a pair is
\* rejected before the call.
C2_NoDiscontinuousAggregation ==
    \A k \in Calls("prove_aggregation") :
        ProducedPV(log[k].lhs).roots_after = ProducedPV(log[k].rhs).roots_before

\* ------------------------------------------------------------------ C3
\* C3: every proof passed as an operand to prove_aggregation, or as the final
\* aggregate to prove_block, was successfully verified earlier in the run
\* (verify_root for a root proof, verify_aggregation for an aggregate).
C3_OperandsVerified ==
    /\ \A k \in Calls("prove_aggregation") :
           VerifiedBefore(k, log[k].lhs) /\ VerifiedBefore(k, log[k].rhs)
    /\ \A k \in Calls("prove_block") : VerifiedBefore(k, log[k].lhs)

C3_Witness ==
    /\ AllMode /\ N = 4
    /\ \E k \in Calls("prove_block") : IsAggregate(log[k].lhs)
    /\ \E k \in Calls("prove_aggregation") :
           IsAggregate(log[k].lhs) /\ IsAggregate(log[k].rhs)

\* ------------------------------------------------------------------ C4
\* C4: in aggregate_proof_all, a failed prove_root, verify_root,
\* prove_aggregation, verify_aggregation or prove_block call is the last call
\* of the run (nothing follows it, it is not repeated) and the run has ended
\* with the failure outcome.
AbortingOps ==
    {"prove_root", "verify_root", "prove_aggregation", "verify_aggregation", "prove_block"}

C4_AbortOnFirstFailure ==
    AllMode =>
        \A k \in Idx :
            (log[k].op \in AbortingOps /\ Failed(k)) => (k = Len(log) /\ pc = "err")

C4_Witness ==
    /\ AllMode /\ N = 5 /\ pc = "err" /\ st.i = 1
    /\ log[Len(log)].op = "verify_aggregation" /\ Failed(Len(log))

\* ------------------------------------------------------------------ C5
\* C5: the wrapper (wrapped_circuit.prove, wrapped_proof.save) only runs on a
\* block proof whose verify_block call succeeded; after a failed verify_block
\* no wrapped proof is produced or saved.
C5_WrapOnlyVerifiedBlock ==
    \A k \in Calls("wrap_prove") \cup Calls("wrap_save") :
        \E j \in 1 .. (k - 1) :
            log[j].op = "verify_block" /\ log[j].ok /\ log[j].lhs = st.block_proof

\* ------------------------------------------------------------------ C6
\* C6: aggregate_proof and aggregate_proof_all return success only if
\* verify_block was called on the block proof that prove_block produced in
\* this run and succeeded; a run with a failed verify_block never returns
\* success.
C6_SuccessNeedsVerifiedBlock ==
    ((AllMode \/ TwoMode) /\ pc = "ok") =>
        /\ \E j \in OkCalls("prove_block") : \E k \in OkCalls("verify_block") :
               j < k /\ log[k].lhs = Block(log[j].lhs)
        /\ \A k \in Calls("verify_block") : log[k].ok

C6_Witness ==
    /\ AllMode /\ pc = "ok" /\ st.saved
    /\ Calls("verify_block") # {}

\* ------------------------------------------------------------------ C7
\* C7 as stated: with N = 1 a run of the scheduler in which no call failed
\* ends with a final proof whose public values are those of segment 0's root
\* proof, and prove_aggregation was never invoked.
C7_SingleSegmentFinalProof ==
    (AllMode /\ env = 1 /\ Ended /\ \A k \in Idx : log[k].ok) =>
        /\ \E k \in Calls("prove_block") :
               log[k].lhs = Root(0) /\ log[k].pv = RootPV(0)
        /\ Calls("prove_aggregation") = {}

\* C7 amended: with N = 1 aggregate_proof_all stops with a usage error
\* before any call and yields no proof; a single segment is served by
\* prove_single_seg, whose final proof is that segment's own proof with its
\* public values unchanged; prove_aggregation is invoked in neither.
C7_SingleSegmentBypass ==
    /\ (AllMode /\ env = 1) =>
           /\ pc \in {"start", "panic"}
           /\ log = <<>>
           /\ st.agg_proof = NoProof /\ st.block_proof = NoProof
    /\ mode = "prove" =>
           /\ Calls("prove_aggregation") = {}
           /\ pc = "ok" =>
                  /\ st.allproof = Stark(seg_file)
                  /\ st.public_values = RootPV(seg_file)
                  /\ log[Len(log)].op = "verify_proof"
                  /\ log[Len(log)].lhs = st.allproof

C7_Witness ==
    \/ AllMode /\ env = 1 /\ pc = "panic"
    \/ mode = "prove" /\ pc = "ok" /\ seg_file = 0

\* ------------------------------------------------------------------ C8
\* C8: aggregate_proof_all asked for N < 2 segments (0 or 1) fails as a usage
\* error before the circuit set is built, before any segment is opened and
\* before any prove_root call.
C8_UsageErrorBeforeWork ==
    (AllMode /\ env \in {0, 1}) =>
        /\ pc # "start" => pc = "panic"
        /\ st.all_circuits = "unbuilt"
        /\ Calls("new_circuits") = {} /\ Calls("open") = {} /\ Calls("prove_root") = {}

C8_Witness == AllMode /\ env = 0 /\ pc = "panic" /\ st.seg_file_number = 0

\* ------------------------------------------------------------------ C9
\* C9: in aggregate_proof_all with N >= 2, a missing or unreadable segment
\* file is reported before any prove_root call of the run.
C9_MissingSegmentBeforeProving ==
    (AllMode /\ N >= 2) =>
        \A k \in Calls("open") :
            Failed(k) => \A j \in 1 .. (k - 1) : log[j].op # "prove_root"

\* ----------------------------------------------------------------- C10
\* The combination order for odd N: the accumulator after k folds, the k-th
\* side aggregate, and the j-th prove_aggregation call.
RECURSIVE OddAcc(_)
OddSide(k) == Agg(Root(2 * k + 1), Root(2 * k + 2))
OddAcc(k) == IF k = 0 THEN Root(0) ELSE Agg(OddAcc(k - 1), OddSide(k - 1))
OddCall(j) ==
    LET k == (j - 1) \div 2
    IN IF j % 2 = 1 THEN <<Root(2 * k + 1), Root(2 * k + 2)>>
                    ELSE <<OddAcc(k), OddSide(k)>>

\* C10: for odd N >= 3 the prove_aggregation calls are, in order, for
\* k = 0..(N-3)/2: segments (2k+1, 2k+2) into a side aggregate, then the
\* accumulator (left, starting as root(0)) with that side aggregate; the
\* last accumulator is the one proof handed to prove_block.
C10_OddCombinationOrder ==
    (AllMode /\ N >= 3 /\ N % 2 = 1) =>
        /\ Len(AggCalls) <= N - 1
        /\ \A j \in 1 .. Len(AggCalls) :
               <<AggCalls[j].lhs, AggCalls[j].rhs>> = OddCall(j)
        /\ \A k \in Calls("prove_block") :
               /\ Len(AggCalls) = N - 1
               /\ log[k].lhs = OddAcc((N - 1) \div 2)
               /\ Cardinality(Calls("prove_block")) = 1

C10_Witness ==
    /\ AllMode /\ N = 5
    /\ \E k \in OkCalls("prove_block") :
           log[k].lhs = Agg(Agg(Root(0), Agg(Root(1), Root(2))), Agg(Root(3), Root(4)))

\* ----------------------------------------------------------------- C11
\* The combination order for even N: the accumulator after k folds
\* (EvenAcc(1) is the aggregate of root(0) and root(1)), the k-th side
\* aggregate, and the j-th prove_aggregation call.
RECURSIVE EvenAcc(_)
EvenSide(k) == Agg(Root(2 * k), Root(2 * k + 1))
EvenAcc(k) == IF k = 1 THEN Agg(Root(0), Root(1)) ELSE Agg(EvenAcc(k - 1), EvenSide(k - 1))
EvenCall(j) ==
    LET k == j \div 2
    IN IF j = 1 THEN <<Root(0), Root(1)>>
       ELSE IF j % 2 = 0 THEN <<Root(2 * k), Root(2 * k + 1)>>
       ELSE <<EvenAcc(k), EvenSide(k)>>

\* C11: for even N >= 2 the first prove_aggregation call combines root(0)
\* with root(1) into the accumulator; then, for k = 1..N/2-1 in order,
\* segments (2k, 2k+1) are combined into a side aggregate that is folded onto
\* the right of the accumulator; the last accumulator is the one proof handed
\* to prove_block.
C11_EvenCombinationOrder ==
    (AllMode /\ N >= 2 /\ N % 2 = 0) =>
        /\ Len(AggCalls) <= N - 1
        /\ \A j \in 1 .. Len(AggCalls) :
               <<AggCalls[j].lhs, AggCalls[j].rhs>> = EvenCall(j)
        /\ \A k \in Calls("prove_block") :
               /\ Len(AggCalls) = N - 1
               /\ log[k].lhs = EvenAcc(N \div 2)
               /\ Cardinality(Calls("prove_block")) = 1

C11_Witness ==
    /\ AllMode /\ N = 4
    /\ \E k \in OkCalls("prove_block") :
           /\ log[k].lhs = Agg(Agg(Root(0), Root(1)), Agg(Root(2), Root(3)))
           /\ log[k].pv.roots_before = Pre(0)
           /\ log[k].pv.roots_after = Post(3)

\* ----------------------------------------------------------------- C12
\* C12: at every prove_aggregation call of aggregate_proof and
\* aggregate_proof_all the merged public values passed are roots_before of
\* the left operand, roots_after and userdata of the right operand, taking
\* for each operand the public values returned when it was produced.
C12_MergedPublicValuesExact ==
    (AllMode \/ TwoMode) =>
        \A k \in Calls("prove_aggregation") :
            log[k].pv = [roots_before |-> ProducedPV(log[k].lhs).roots_before,
                         roots_after |-> ProducedPV(log[k].rhs).roots_after,
                         userdata |-> ProducedPV(log[k].rhs).userdata]

C12_Witness ==
    /\ AllMode /\ N = 5 /\ breaks = {1}
    /\ \E k \in Calls("prove_aggregation") :
           /\ log[k].lhs = Agg(Root(0), Agg(Root(1), Root(2)))
           /\ log[k].rhs = Agg(Root(3), Root(4))

\* ----------------------------------------------------------------- C13
\* C13: at every prove_aggregation call of aggregate_proof_all each is_agg
\* flag tells the kind of the proof it accompanies: true exactly when that
\* operand came from prove_aggregation, false when it is a root proof; so
\* the accumulator is flagged false only while it is root(0) and a side
\* aggregate is always flagged true.
C13_FlagsMatchKinds ==
    (AllMode /\ N >= 2) =>
        \A k \in Calls("prove_aggregation") :
            /\ log[k].left_is_agg = IsAggregate(log[k].lhs)
            /\ log[k].right_is_agg = IsAggregate(log[k].rhs)
            /\ ~log[k].left_is_agg => IsRoot(log[k].lhs)
            /\ ~log[k].right_is_agg => IsRoot(log[k].rhs)

C13_Witness ==
    /\ AllMode /\ N = 5
    /\ \E k \in Calls("prove_aggregation") :
           ~log[k].left_is_agg /\ log[k].right_is_agg /\ log[k].lhs = Root(0)
    /\ \E k \in Calls("prove_aggregation") :
           log[k].left_is_agg /\ log[k].right_is_agg

\* ----------------------------------------------------------------- C14
\* The segment indices a proof covers, in order, and whether they form a
\* range lo..hi without gaps.
Leaves(p) == SelectSeq(p, LAMBDA x : x >= 0)
Contiguous(p) ==
    /\ Len(Leaves(p)) >= 1
    /\ \A x \in 1 .. (Len(Leaves(p)) - 1) : Leaves(p)[x + 1] = Leaves(p)[x] + 1
First(p) == Leaves(p)[1]
Last(p) == Leaves(p)[Len(Leaves(p))]

\* C14: at every prove_aggregation call of aggregate_proof_all the left
\* operand covers a contiguous range [a..j] and the right operand covers
\* [j+1..b]; the accumulator always covers a prefix [0..j]; hence on a
\* continuous trace left.roots_after = right.roots_before at every
\* combination, and segment 0 is never dropped.
C14_ContiguousRanges ==
    (AllMode /\ N >= 2) =>
        /\ \A k \in Calls("prove_aggregation") :
               /\ Contiguous(log[k].lhs) /\ Contiguous(log[k].rhs)
               /\ First(log[k].rhs) = Last(log[k].lhs) + 1
               /\ Continuous =>
                      ProducedPV(log[k].lhs).roots_after = ProducedPV(log[k].rhs).roots_before
        /\ st.agg_proof # NoProof =>
               Contiguous(st.agg_proof) /\ First(st.agg_proof) = 0
        /\ \A k \in Calls("prove_block") :
               First(log[k].lhs) = 0 /\ Last(log[k].lhs) = N - 1

C14_Witness ==
    /\ AllMode /\ N = 4 /\ Continuous
    /\ \E k \in OkCalls("prove_aggregation") :
           Leaves(log[k].lhs) = <<0, 1>> /\ Leaves(log[k].rhs) = <<2, 3>>
    /\ Leaves(st.agg_proof) = <<0, 1, 2, 3>>

\* ----------------------------------------------------------------- C15
RootCalls == SelectSeq(log, LAMBDA e : e.op = "prove_root")

\* C15: a run of aggregate_proof_all (N >= 2) calls prove_root on segments
\* 0, 1, 2, ... in strictly increasing order, each index once; when no step
\* failed (prove_block is reached) exactly the indices 0..N-1 were proved.
C15_EachSegmentProvedOnce ==
    (AllMode /\ N >= 2) =>
        /\ \A j \in 1 .. Len(RootCalls) : RootCalls[j].seg = j - 1
        /\ Len(RootCalls) <= N
        /\ Calls("prove_block") # {} => Len(RootCalls) = N

C15_Witness ==
    /\ AllMode /\ N = 5 /\ Len(RootCalls) = 5
    /\ Calls("prove_block") # {}
    /\ RootCalls[5].seg = 4 /\ RootCalls[5].ok

\* ----------------------------------------------------------------- C16
\* C16: a run of aggregate_proof_all (N >= 2) with no failing step makes
\* exactly N-1 prove_aggregation calls and one prove_block call; prove_block
\* comes after the last prove_aggregation / verify_aggregation, takes no
\* previous block proof, and receives the current accumulator with the
\* public values returned when that accumulator was produced.
C16_SingleBlockCall ==
    (AllMode /\ N >= 2) =>
        /\ Cardinality(Calls("prove_block")) <= 1
        /\ \A k \in Calls("prove_block") :
               /\ Cardinality(Calls("prove_aggregation")) = N - 1
               /\ \A j \in Calls("prove_aggregation") \cup Calls("verify_aggregation") : j < k
               /\ log[k].rhs = NoProof
               /\ log[k].lhs = st.agg_proof
               /\ log[k].pv = ProducedPV(log[k].lhs)
        /\ pc = "ok" => Cardinality(Calls("prove_block")) = 1

C16_Witness ==
    /\ AllMode /\ N = 3 /\ pc = "ok"
    /\ Cardinality(Calls("prove_aggregation")) = 2
    /\ Cardinality(Calls("prove_block")) = 1

\* ----------------------------------------------------------------- C17
\* Every call that was made succeeded and every segment file was readable.
AllSucceeded == \A k \in Idx : log[k].ok

\* C17: when every external call returns, a run of aggregate_proof_all with
\* N >= 2 terminates; a run that got through the main loop made exactly
\* floor((N - base_seg) / 2) iterations (base_seg 2 for even N, 1 for odd N)
\* and hands one final proof, the accumulator, to prove_block; if every call
\* also succeeded the run ends in the success outcome.
C17_Terminates ==
    /\ (AllMode /\ ParseSegFileNumber(env) >= 2) ~> Ended
    /\ [](AllMode /\ N >= 2 =>
            /\ st.i <= (N - (IF N % 2 = 0 THEN 2 ELSE 1)) \div 2
            /\ Calls("prove_block") # {} =>
                   /\ st.i = (N - (IF N % 2 = 0 THEN 2 ELSE 1)) \div 2
                   /\ Cardinality(Calls("prove_block")) = 1
                   /\ Leaves(st.agg_proof) = [x \in 1 .. N |-> x - 1]
            /\ (Ended /\ AllSucceeded) => pc = "ok")

C17_Witness ==
    /\ AllMode /\ N = 5 /\ pc = "ok" /\ st.i = 2 /\ AllSucceeded
    /\ st.base_seg = 1

\* ----------------------------------------------------------------- C18
ProverOps ==
    {"prove_root", "verify_root", "prove_aggregation", "verify_aggregation",
     "prove_block", "verify_block"}
WrapOps == {"wrap_build", "wrap_prove", "wrap_save"}
ProverCalls == SelectSeq(log, LAMBDA e : e.op \in ProverOps)

\* The prover / verifier calls of a two-segment run on segments 0 and 1.
TwoSegmentMerged ==
    [roots_before |-> Pre(0), roots_after |-> Post(1), userdata |-> Userdata(1)]
TwoSegmentCalls ==
    << Ev("prove_root", 0, FALSE, FALSE, NoProof, NoProof, RootPV(0), TRUE),
       Ev("verify_root", -1, FALSE, FALSE, Root(0), NoProof, NoPV, TRUE),
       Ev("prove_root", 1, FALSE, FALSE, NoProof, NoProof, RootPV(1), TRUE),
       Ev("verify_root", -1, FALSE, FALSE, Root(1), NoProof, NoPV, TRUE),
       Ev("prove_aggregation", -1, FALSE, FALSE, Root(0), Root(1), TwoSegmentMerged, TRUE),
       Ev("verify_aggregation", -1, FALSE, FALSE, Agg(Root(0), Root(1)), NoProof, NoPV, TRUE),
       Ev("prove_block", -1, FALSE, FALSE, Agg(Root(0), Root(1)), NoProof,
          AggregationPV(TwoSegmentMerged), TRUE),
       Ev("verify_block", -1, FALSE, FALSE, Block(Agg(Root(0), Root(1))), NoProof, NoPV, TRUE) >>

\* A run over segments 0 and 1: aggregate_proof_all with N = 2, or
\* aggregate_proof on segment files 0 and 1.
OnSegmentsZeroOne ==
    \/ AllMode /\ N = 2
    \/ TwoMode /\ seg_file = 0 /\ seg_file2 = 1

\* C18: aggregate_proof_all with N = 2 and aggregate_proof on segments 0 and
\* 1 make the same prover / verifier calls in the same order with the same
\* flags, operands and public values (prove_root, verify_root, prove_root,
\* verify_root, prove_aggregation(false, false), verify_aggregation,
\* prove_block(None), verify_block); only aggregate_proof_all goes on to the
\* wrapping step, and only after verify_block.
C18_TwoSegmentRunsAgree ==
    /\ OnSegmentsZeroOne =>
           /\ Len(ProverCalls) <= Len(TwoSegmentCalls)
           /\ \A j \in 1 .. Len(ProverCalls) :
                  [ProverCalls[j] EXCEPT !.ok = TRUE] = TwoSegmentCalls[j]
           /\ \A k \in Idx : log[k].op \in WrapOps =>
                  \E j \in 1 .. (k - 1) : log[j].op = "verify_block"
    /\ TwoMode => \A k \in Idx : log[k].op \notin WrapOps

C18_WitnessAll ==
    /\ AllMode /\ N = 2 /\ Len(ProverCalls) = 8 /\ AllSucceeded
    /\ \E k \in Idx : log[k].op = "wrap_save"

C18_WitnessTwo ==
    /\ TwoMode /\ seg_file = 0 /\ seg_file2 = 1 /\ Len(ProverCalls) = 8 /\ pc = "ok"

C18_Witness == C18_WitnessAll \/ C18_WitnessTwo

\* ----------------------------------------------------------------- C19
\* C19: in aggregate_proof and aggregate_proof_all the circuit set is built
\* exactly once, before the first segment is opened or proved; every prove
\* and verify call of the run comes after that construction and before
\* anything touches the set again (the wrapper taking the block circuit out
\* of it comes after the last verify call).
C19_CircuitsBuiltOnce ==
    (AllMode \/ TwoMode) =>
        /\ Cardinality(Calls("new_circuits")) <= 1
        /\ st.all_circuits # "unbuilt" <=> Calls("new_circuits") # {}
        /\ \A k \in Idx : log[k].op \in ProverOps \cup {"open"} =>
               /\ \E j \in 1 .. (k - 1) : log[j].op = "new_circuits"
               /\ \A j \in 1 .. (k - 1) : log[j].op # "wrap_build"
        /\ st.all_circuits = "block_moved" <=> Calls("wrap_build") # {}
        /\ Calls("wrap_build") # {} => Calls("verify_block") # {}

C19_Witness ==
    /\ AllMode /\ N = 4 /\ pc = "ok"
    /\ log[1].op = "new_circuits" /\ log[2].op = "open"
    /\ st.all_circuits = "block_moved"
====
